---- MODULE Spec2Model ----
\* Query routing (search / regenerate) and the conversation memory lifecycle
\* (startup load, chat turns, shutdown finalize) of src/main.py.
EXTENDS Integers, Sequences, FiniteSets, TLC

VARIABLES
    phase,          \* "down" | "up": whether the server process is serving requests
    model,          \* SearchModels: content type -> handle (NoHandle when unset)
    search_config,  \* SearchConfig: content type -> configured?
    chat_session,   \* processor_config.conversation.chat_session
    meta_log,       \* processor_config.conversation.meta_log (a dict)
    logfile,        \* the conversation log file on disk
    req,            \* the request handled last (operation and arguments)
    calls,          \* the collaborator calls the last handler made, in order
    result,         \* what the last handler returned (or that it raised)
    turns,          \* chat turns of this process lifetime: completed, failed, log length at startup
    starts,         \* number of process startups so far
    threads         \* the requests in flight: worker thread -> the locals of its handler

vars == <<phase, model, search_config, chat_session, meta_log, logfile,
          req, calls, result, turns, starts, threads>>

search_vars == <<model, search_config>>
conversation_vars == <<chat_session, meta_log>>

----------------------------------------------------------------------------
\* Bounds of the model

MaxVer == 2        \* handles built for one content type within one process lifetime
MaxHits == 1       \* hits a backend reports for one query
MaxChat == 3       \* records in meta_log["chat"]
MaxFailed == 1     \* failed chat turns within one process lifetime
MaxStarts == 2     \* process startups

----------------------------------------------------------------------------
\* Values

None == "None"
NoHandle == 0

Notes == "notes"
Music == "music"
Ledger == "ledger"
Image == "image"

\* SearchType, in the order search and regenerate go through the types
SearchType == <<Notes, Music, Ledger, Image>>
Types == {Notes, Music, Ledger, Image}
Filters == Types \cup {None}

NoneQ == "<None>"
Queries == {NoneQ, "", "coffee"}
Counts == {1, 5}

EmptyDict == [k \in {} |-> <<>>]

Returned(v) == [kind |-> "return", value |-> v]
Raised(where) == [kind |-> "raise", at |-> where]

EmptyResult == [kind |-> "dict", entries |-> <<>>]
Collated(X, h, es) == [kind |-> "collated", type |-> X, handle |-> h, entries |-> es]

Min(a, b) == IF a < b THEN a ELSE b

\* the worker threads of the server that run the handlers of concurrent requests
Threads == {"t1", "t2"}

\* the locals of a thread that is handling no request
Idle == [pc |-> "idle"]

----------------------------------------------------------------------------
\* Search backends (opaque collaborators)

\* X.query(user_query, handle): the ranked hits, k of them
query(X, q, h, k) == [i \in 1..k |-> [type |-> X, handle |-> h, rank |-> i]]

\* X.collate_results(hits, handle.entries, count): at most count records, in hit order
collate_results(X, hits, h, n) ==
    Collated(X, h, [i \in 1..Min(Len(hits), n) |-> [Entry |-> hits[i]]])

QueryCall(X, q, h) == [fn |-> "query", type |-> X, handle |-> h, q |-> q]
CollateCall(X, h, n) == [fn |-> "collate_results", type |-> X, handle |-> h, n |-> n]

SearchFailures == {"none", "query", "collate_results"}

\* what a backend does with one query: it raises, or it reports k hits
BackendOutcomes ==
    {[k |-> 0, fail |-> f] : f \in SearchFailures \ {"none"}}
        \cup {[k |-> i, fail |-> "none"] : i \in 0..MaxHits}

\* One branch of search: query backend X, then collate
SearchBranch(X, q, n, mdl, k, fail) ==
    LET h == mdl[X] IN
    IF fail = "query"
    THEN [ret |-> Raised("query"), calls |-> <<QueryCall(X, q, h)>>]
    ELSE IF fail = "collate_results"
    THEN [ret |-> Raised("collate_results"),
          calls |-> <<QueryCall(X, q, h), CollateCall(X, h, n)>>]
    ELSE [ret |-> Returned(collate_results(X, query(X, q, h, k), h, n)),
          calls |-> <<QueryCall(X, q, h), CollateCall(X, h, n)>>]

\* search with the Music and Ledger branches in the wrong order
SearchRun_LedgerFirst(q, n, t, mdl, k, fail) ==
    IF q = NoneQ \/ q = ""
    THEN [ret |-> Returned(EmptyResult), calls |-> <<>>]
    ELSE IF (t = Notes \/ t = None) /\ mdl[Notes] # NoHandle
    THEN SearchBranch(Notes, q, n, mdl, k, fail)
    ELSE IF (t = Ledger \/ t = None) /\ mdl[Ledger] # NoHandle
    THEN SearchBranch(Ledger, q, n, mdl, k, fail)
    ELSE IF (t = Music \/ t = None) /\ mdl[Music] # NoHandle
    THEN SearchBranch(Music, q, n, mdl, k, fail)
    ELSE IF (t = Image \/ t = None) /\ mdl[Image] # NoHandle
    THEN SearchBranch(Image, q, n, mdl, k, fail)
    ELSE [ret |-> Returned(EmptyResult), calls |-> <<>>]

\* search that rejects only a missing query, not an empty one
SearchRun_EmptyQueryPasses(q, n, t, mdl, k, fail) ==
    IF q = NoneQ
    THEN [ret |-> Returned(EmptyResult), calls |-> <<>>]
    ELSE IF (t = Notes \/ t = None) /\ mdl[Notes] # NoHandle
    THEN SearchBranch(Notes, q, n, mdl, k, fail)
    ELSE IF (t = Music \/ t = None) /\ mdl[Music] # NoHandle
    THEN SearchBranch(Music, q, n, mdl, k, fail)
    ELSE IF (t = Ledger \/ t = None) /\ mdl[Ledger] # NoHandle
    THEN SearchBranch(Ledger, q, n, mdl, k, fail)
    ELSE IF (t = Image \/ t = None) /\ mdl[Image] # NoHandle
    THEN SearchBranch(Image, q, n, mdl, k, fail)
    ELSE [ret |-> Returned(EmptyResult), calls |-> <<>>]

\* search whose last branch forgets the type filter, so that it falls back to images
SearchRun_ImageFallback(q, n, t, mdl, k, fail) ==
    IF q = NoneQ \/ q = ""
    THEN [ret |-> Returned(EmptyResult), calls |-> <<>>]
    ELSE IF (t = Notes \/ t = None) /\ mdl[Notes] # NoHandle
    THEN SearchBranch(Notes, q, n, mdl, k, fail)
    ELSE IF (t = Music \/ t = None) /\ mdl[Music] # NoHandle
    THEN SearchBranch(Music, q, n, mdl, k, fail)
    ELSE IF (t = Ledger \/ t = None) /\ mdl[Ledger] # NoHandle
    THEN SearchBranch(Ledger, q, n, mdl, k, fail)
    ELSE IF mdl[Image] # NoHandle
    THEN SearchBranch(Image, q, n, mdl, k, fail)
    ELSE [ret |-> Returned(EmptyResult), calls |-> <<>>]

\* search(q, n, t) run against the handles mdl; k and fail are what the backend does
SearchRun(q, n, t, mdl, k, fail) ==
    IF q = NoneQ \/ q = ""
    THEN [ret |-> Returned(EmptyResult), calls |-> <<>>]
    ELSE IF (t = Notes \/ t = None) /\ mdl[Notes] # NoHandle
    THEN SearchBranch(Notes, q, n, mdl, k, fail)
    ELSE IF (t = Music \/ t = None) /\ mdl[Music] # NoHandle
    THEN SearchBranch(Music, q, n, mdl, k, fail)
    ELSE IF (t = Ledger \/ t = None) /\ mdl[Ledger] # NoHandle
    THEN SearchBranch(Ledger, q, n, mdl, k, fail)
    ELSE IF (t = Image \/ t = None) /\ mdl[Image] # NoHandle
    THEN SearchBranch(Image, q, n, mdl, k, fail)
    ELSE [ret |-> Returned(EmptyResult), calls |-> <<>>]

\* GET /search
search ==
    /\ phase = "up"
    /\ \E q \in Queries, n \in Counts, t \in Filters, o \in BackendOutcomes :
          LET r == SearchRun(q, n, t, model, o.k, o.fail) IN
          /\ req' = [op |-> "search", q |-> q, n |-> n, t |-> t]
          /\ calls' = r.calls
          /\ result' = r.ret
    /\ UNCHANGED <<phase, search_vars, conversation_vars, logfile, turns, starts, threads>>

----------------------------------------------------------------------------
\* Regeneration and startup of the search backends

\* X.setup(config, regenerate): a handle built from scratch, distinct from h
setup(h) == h + 1

SetupCall(X) == [fn |-> "setup", type |-> X]

\* a regenerate that rebuilds every configured type, whatever the filter
RECURSIVE RegenerateFrom_IgnoresFilter(_, _, _, _, _, _)
RegenerateFrom_IgnoresFilter(i, t, mdl, cfg, failAt, done) ==
    IF i > Len(SearchType)
    THEN [model |-> mdl, calls |-> done,
          ret |-> Returned([status |-> "ok", message |-> "regeneration completed"])]
    ELSE LET X == SearchType[i] IN
         IF cfg[X]
         THEN IF failAt = X
              THEN [model |-> mdl, calls |-> Append(done, SetupCall(X)),
                    ret |-> Raised("setup")]
              ELSE RegenerateFrom_IgnoresFilter(i + 1, t,
                                                [mdl EXCEPT ![X] = setup(mdl[X])],
                                                cfg, failAt, Append(done, SetupCall(X)))
         ELSE RegenerateFrom_IgnoresFilter(i + 1, t, mdl, cfg, failAt, done)

\* the four ifs of regenerate, from the i-th on; failAt is the type whose setup raises
RECURSIVE RegenerateFrom(_, _, _, _, _, _)
RegenerateFrom(i, t, mdl, cfg, failAt, done) ==
    IF i > Len(SearchType)
    THEN [model |-> mdl, calls |-> done,
          ret |-> Returned([status |-> "ok", message |-> "regeneration completed"])]
    ELSE LET X == SearchType[i] IN
         IF (t = X \/ t = None) /\ cfg[X]
         THEN IF failAt = X
              THEN [model |-> mdl, calls |-> Append(done, SetupCall(X)),
                    ret |-> Raised("setup")]
              ELSE RegenerateFrom(i + 1, t, [mdl EXCEPT ![X] = setup(mdl[X])],
                                  cfg, failAt, Append(done, SetupCall(X)))
         ELSE RegenerateFrom(i + 1, t, mdl, cfg, failAt, done)

\* GET /regenerate
regenerate ==
    /\ phase = "up"
    /\ \E t \in Filters, failAt \in Types \cup {None} :
          LET r == RegenerateFrom(1, t, model, search_config, failAt, <<>>) IN
          /\ \A X \in Types : r.model[X] <= MaxVer
          /\ model' = r.model
          /\ req' = [op |-> "regenerate", t |-> t]
          /\ calls' = r.calls
          /\ result' = r.ret
    /\ UNCHANGED <<phase, search_config, conversation_vars, logfile, turns, starts, threads>>

\* initialize_search(config, ...): the handles and configuration of a new process
initialize_search(config) ==
    [model |-> [X \in Types |-> IF config[X] THEN setup(NoHandle) ELSE NoHandle],
     search_config |-> config]

----------------------------------------------------------------------------
\* Conversation log: the dict, its records and its file

Has(d, k) == k \in DOMAIN d
Get(d, k, default) == IF k \in DOMAIN d THEN d[k] ELSE default
Put(d, k, v) == [x \in DOMAIN d \cup {k} |-> IF x = k THEN v ELSE d[x]]
Last(s) == s[Len(s)]

\* the keys of a conversation log, in the order they are inserted
KeyOrder == <<"chat", "session">>

NoFile == [state |-> "absent", doc |-> <<>>]
Malformed == [state |-> "malformed", doc |-> <<>>]
File(doc) == [state |-> "file", doc |-> doc]

\* json.dump(conversation_log, logfile): the document's members, key by key
json_dump(d) ==
    LET ks == SelectSeq(KeyOrder, LAMBDA k : k \in DOMAIN d) IN
    [i \in 1..Len(ks) |-> [key |-> ks[i], value |-> d[ks[i]]]]

\* json.load(f): the dict of the document's members
json_load(doc) ==
    [k \in {doc[i].key : i \in DOMAIN doc} |->
        doc[CHOOSE i \in DOMAIN doc : doc[i].key = k].value]

\* ConversationProcessorConfig.create_from_dictionary: a new conversation state
NewConversation == [chat_session |-> <<>>, meta_log |-> EmptyDict]

\* a startup that takes a log file it cannot parse for no log at all
initialize_processor_RecoversEmpty(f) ==
    IF f.state = "absent" \/ f.state = "malformed"
    THEN [ret |-> Returned("processor_config"), meta_log |-> EmptyDict,
          chat_session |-> <<>>]
    ELSE [ret |-> Returned("processor_config"), meta_log |-> json_load(f.doc),
          chat_session |-> NewConversation.chat_session]

\* initialize_processor(config, ...) of a process that finds the log file f
initialize_processor(f) ==
    IF f.state = "absent"
    THEN [ret |-> Returned("processor_config"), meta_log |-> EmptyDict,
          chat_session |-> <<>>]
    ELSE IF f.state = "malformed"
    THEN [ret |-> Raised("json.load"), meta_log |-> NewConversation.meta_log,
          chat_session |-> NewConversation.chat_session]
    ELSE [ret |-> Returned("processor_config"), meta_log |-> json_load(f.doc),
          chat_session |-> NewConversation.chat_session]

ChatLen(d) == Len(Get(d, "chat", <<>>))

\* __main__: a new process initializes search, then the processor, then serves
\* (a startup whose backend setup raises never serves and leaves nothing behind)
main(configs) ==
    /\ phase = "down"
    /\ starts < MaxStarts
    /\ starts' = starts + 1
    /\ \E config \in configs :
          LET s == initialize_search(config)
              p == initialize_processor(logfile)
          IN
          /\ req' = [op |-> "main", config |-> config]
          /\ calls' = <<>>
          /\ result' = p.ret
          /\ phase' = IF p.ret.kind = "return" THEN "up" ELSE "down"
          /\ model' = s.model
          /\ search_config' = s.search_config
          /\ chat_session' = p.chat_session
          /\ meta_log' = p.meta_log
          /\ turns' = [ok |-> 0, failed |-> 0, base |-> ChatLen(meta_log')]
    /\ threads' = [th \in Threads |-> Idle]
    /\ UNCHANGED logfile

----------------------------------------------------------------------------
\* Chat turns

ChatQueries == {"q1"}

\* what understand returns: the intent's memory-type and its refined query
Metadatas ==
    { [memory_type |-> "notes", query |-> "coffee"],
      [memory_type |-> "notes", query |-> NoneQ],
      [memory_type |-> None, query |-> NoneQ] }

\* ... and with a notes intent whose refined query is empty
RefinedMetadatas == Metadatas \cup {[memory_type |-> "notes", query |-> ""]}

ChatFailures == {"none", "understand", "query", "collate_results", "summarize", "converse"}

UnderstandCall(q) == [fn |-> "understand", q |-> q]
SummarizeCall(text, type) == [fn |-> "summarize", text |-> text, summary_type |-> type]
ConverseCall(q, session) == [fn |-> "converse", q |-> q, chat_session |-> session]

\* message_to_prompt(q, chat_session, gpt_message): the transcript continued by the turn
message_to_prompt(q, session, gpt_message) ==
    Append(session, [q |-> q, response |-> gpt_message])

\* message_to_log(q, metadata, gpt_response, log): the log with the turn's record appended
message_to_log(q, metadata, gpt_response, log) ==
    Append(log, [message |-> q, metadata |-> metadata, response |-> gpt_response])

\* "\n".join([item["Entry"] for item in result_list])
JoinEntries(result_list) ==
    [i \in 1..Len(result_list.entries) |-> result_list.entries[i].Entry]

\* a notes lookup that searches every content type, for the default count
Answer_SearchesEveryType(q, metadata, k, fail, session, mdl) ==
    IF fail = "understand"
    THEN [ret |-> Raised("understand"), calls |-> <<UnderstandCall(q)>>]
    ELSE IF metadata.memory_type = "notes"
    THEN LET s == SearchRun(metadata.query, 5, None, mdl, k,
                            IF fail \in SearchFailures THEN fail ELSE "none")
             sofar == <<UnderstandCall(q)>> \o s.calls
         IN
         IF s.ret.kind = "raise"
         THEN [ret |-> s.ret, calls |-> sofar]
         ELSE LET collated_result == JoinEntries(s.ret.value) IN
              IF fail = "summarize"
              THEN [ret |-> Raised("summarize"),
                    calls |-> Append(sofar, SummarizeCall(collated_result, "notes"))]
              ELSE [ret |-> Returned("summary"),
                    calls |-> Append(sofar, SummarizeCall(collated_result, "notes"))]
    ELSE IF fail = "converse"
         THEN [ret |-> Raised("converse"),
               calls |-> <<UnderstandCall(q), ConverseCall(q, session)>>]
         ELSE [ret |-> Returned("reply"),
               calls |-> <<UnderstandCall(q), ConverseCall(q, session)>>]

\* a notes lookup that answers by conversation when the search found no backend
Answer_ConversesWhenEmpty(q, metadata, k, fail, session, mdl) ==
    IF fail = "understand"
    THEN [ret |-> Raised("understand"), calls |-> <<UnderstandCall(q)>>]
    ELSE IF metadata.memory_type = "notes"
    THEN LET s == SearchRun(metadata.query, 1, Notes, mdl, k,
                            IF fail \in SearchFailures THEN fail ELSE "none")
             sofar == <<UnderstandCall(q)>> \o s.calls
         IN
         IF s.ret.kind = "raise"
         THEN [ret |-> s.ret, calls |-> sofar]
         ELSE IF s.ret.value = EmptyResult
         THEN [ret |-> Returned("reply"),
               calls |-> <<UnderstandCall(q), ConverseCall(q, session)>>]
         ELSE LET collated_result == JoinEntries(s.ret.value) IN
              IF fail = "summarize"
              THEN [ret |-> Raised("summarize"),
                    calls |-> Append(sofar, SummarizeCall(collated_result, "notes"))]
              ELSE [ret |-> Returned("summary"),
                    calls |-> Append(sofar, SummarizeCall(collated_result, "notes"))]
    ELSE IF fail = "converse"
         THEN [ret |-> Raised("converse"),
               calls |-> <<UnderstandCall(q), ConverseCall(q, session)>>]
         ELSE [ret |-> Returned("reply"),
               calls |-> <<UnderstandCall(q), ConverseCall(q, session)>>]

\* lines 98-105: classify the query, then answer it from the notes or by conversation
Answer(q, metadata, k, fail, session, mdl) ==
    IF fail = "understand"
    THEN [ret |-> Raised("understand"), calls |-> <<UnderstandCall(q)>>]
    ELSE IF metadata.memory_type = "notes"
    THEN LET s == SearchRun(metadata.query, 1, Notes, mdl, k,
                            IF fail \in SearchFailures THEN fail ELSE "none")
             sofar == <<UnderstandCall(q)>> \o s.calls
         IN
         IF s.ret.kind = "raise"
         THEN [ret |-> s.ret, calls |-> sofar]
         ELSE LET collated_result == JoinEntries(s.ret.value) IN
              IF fail = "summarize"
              THEN [ret |-> Raised("summarize"),
                    calls |-> Append(sofar, SummarizeCall(collated_result, "notes"))]
              ELSE [ret |-> Returned("summary"),
                    calls |-> Append(sofar, SummarizeCall(collated_result, "notes"))]
    ELSE IF fail = "converse"
         THEN [ret |-> Raised("converse"),
               calls |-> <<UnderstandCall(q), ConverseCall(q, session)>>]
         ELSE [ret |-> Returned("reply"),
               calls |-> <<UnderstandCall(q), ConverseCall(q, session)>>]

\* a chat turn that writes its record to the log even when the answer failed
chat_LogsFailedTurn ==
    /\ phase = "up"
    /\ \E q \in ChatQueries, metadata \in Metadatas, k \in 0..1, fail \in ChatFailures :
          LET a == Answer(q, metadata, k, fail, chat_session, model) IN
          /\ IF a.ret.kind = "raise"
             THEN turns.failed < MaxFailed
             ELSE ChatLen(meta_log) < MaxChat
          /\ req' = [op |-> "chat", q |-> q]
          /\ calls' = a.calls
          /\ meta_log' = Put(meta_log, "chat",
                             message_to_log(q, metadata, a.ret.kind,
                                            Get(meta_log, "chat", <<>>)))
          /\ IF a.ret.kind = "raise"
             THEN /\ result' = a.ret
                  /\ turns' = [turns EXCEPT !.failed = @ + 1]
                  /\ UNCHANGED chat_session
             ELSE /\ chat_session' = message_to_prompt(q, chat_session, a.ret.value)
                  /\ result' = Returned([status |-> "ok", response |-> a.ret.value])
                  /\ turns' = [turns EXCEPT !.ok = @ + 1]
    /\ UNCHANGED <<phase, search_vars, logfile, starts, threads>>

\* a chat turn that continues the transcript with the query before it has the answer
chat_PromptBeforeAnswer ==
    /\ phase = "up"
    /\ \E q \in ChatQueries, metadata \in Metadatas, k \in 0..1, fail \in ChatFailures :
          LET a == Answer(q, metadata, k, fail, chat_session, model) IN
          /\ IF a.ret.kind = "raise"
             THEN turns.failed < MaxFailed
             ELSE ChatLen(meta_log) < MaxChat
          /\ req' = [op |-> "chat", q |-> q]
          /\ calls' = a.calls
          /\ IF a.ret.kind = "raise"
             THEN /\ result' = a.ret
                  /\ turns' = [turns EXCEPT !.failed = @ + 1]
                  /\ chat_session' = message_to_prompt(q, chat_session, "")
                  /\ UNCHANGED meta_log
             ELSE LET gpt_response == a.ret.value IN
                  /\ chat_session' = message_to_prompt(q, chat_session, gpt_response)
                  /\ meta_log' = Put(meta_log, "chat",
                                     message_to_log(q, metadata, gpt_response,
                                                    Get(meta_log, "chat", <<>>)))
                  /\ result' = Returned([status |-> "ok", response |-> gpt_response])
                  /\ turns' = [turns EXCEPT !.ok = @ + 1]
    /\ UNCHANGED <<phase, search_vars, logfile, starts, threads>>

\* GET /chat, with the classifier's answer among metadatas
chat_turn(metadatas) ==
    /\ phase = "up"
    /\ \E q \in ChatQueries, metadata \in metadatas, k \in 0..1, fail \in ChatFailures :
          LET a == Answer(q, metadata, k, fail, chat_session, model) IN
          /\ IF a.ret.kind = "raise"
             THEN turns.failed < MaxFailed
             ELSE ChatLen(meta_log) < MaxChat
          /\ req' = [op |-> "chat", q |-> q]
          /\ calls' = a.calls
          /\ IF a.ret.kind = "raise"
             THEN /\ result' = a.ret
                  /\ turns' = [turns EXCEPT !.failed = @ + 1]
                  /\ UNCHANGED <<chat_session, meta_log>>
             ELSE LET gpt_response == a.ret.value IN
                  /\ chat_session' = message_to_prompt(q, chat_session, gpt_response)
                  /\ meta_log' = Put(meta_log, "chat",
                                     message_to_log(q, metadata, gpt_response,
                                                    Get(meta_log, "chat", <<>>)))
                  /\ result' = Returned([status |-> "ok", response |-> gpt_response])
                  /\ turns' = [turns EXCEPT !.ok = @ + 1]
    /\ UNCHANGED <<phase, search_vars, logfile, starts, threads>>

\* GET /chat
chat == chat_turn(Metadatas)

\* GET /chat, where the classifier may also refine the query to an empty one
chat_refined == chat_turn(RefinedMetadatas)

----------------------------------------------------------------------------
\* The handlers statement by statement, for requests served concurrently

\* a handler returns (or raises): its outcome is recorded and its thread is free
Finish(th, request, made, ret) ==
    /\ req' = request
    /\ calls' = made
    /\ result' = ret
    /\ threads' = [threads EXCEPT ![th] = Idle]

InFlight == {th \in Threads : threads[th].pc # "idle"}

\* search, lines 26-32: the request arrives; an empty query returns at once
search_begin(th) ==
    /\ phase = "up"
    /\ threads[th].pc = "idle"
    /\ \E q \in Queries, n \in Counts, t \in Filters :
          LET request == [op |-> "search", q |-> q, n |-> n, t |-> t] IN
          IF q = NoneQ \/ q = ""
          THEN Finish(th, request, <<>>, Returned(EmptyResult))
          ELSE /\ threads' = [threads EXCEPT ![th] = [pc |-> "if", request |-> request, i |-> 1]]
               /\ UNCHANGED <<req, calls, result>>
    /\ UNCHANGED <<phase, search_vars, conversation_vars, logfile, turns, starts>>

\* search, lines 34, 41, 48, 55: the condition of the i-th branch reads model.X_search
search_if(th) ==
    /\ phase = "up"
    /\ threads[th].pc = "if"
    /\ LET f == threads[th]
           X == SearchType[f.i]
       IN
       IF (f.request.t = X \/ f.request.t = None) /\ model[X] # NoHandle
       THEN /\ threads' = [threads EXCEPT ![th] =
                              [pc |-> "query", request |-> f.request, i |-> f.i,
                               checked |-> model[X]]]
            /\ UNCHANGED <<req, calls, result>>
       ELSE IF f.i < Len(SearchType)
       THEN /\ threads' = [threads EXCEPT ![th].i = f.i + 1]
            /\ UNCHANGED <<req, calls, result>>
       ELSE Finish(th, f.request, <<>>, Returned(EmptyResult))
    /\ UNCHANGED <<phase, search_vars, conversation_vars, logfile, turns, starts>>

\* search, lines 36, 43, 50, 57: X.query(user_query, model.X_search) reads the handle again
search_query(th) ==
    /\ phase = "up"
    /\ threads[th].pc = "query"
    /\ LET f == threads[th]
           X == SearchType[f.i]
       IN
       \E k \in 0..MaxHits, fail \in {"none", "query"} :
          IF fail = "query"
          THEN Finish(th, f.request, <<QueryCall(X, f.request.q, model[X])>>, Raised("query"))
          ELSE /\ threads' = [threads EXCEPT ![th] =
                                 [pc |-> "collate", request |-> f.request, i |-> f.i,
                                  checked |-> f.checked, queried |-> model[X],
                                  hits |-> query(X, f.request.q, model[X], k)]]
               /\ UNCHANGED <<req, calls, result>>
    /\ UNCHANGED <<phase, search_vars, conversation_vars, logfile, turns, starts>>

\* search, lines 39, 46, 53, 60: X.collate_results(hits, model.X_search.entries, n)
\* reads the handle a third time
search_collate(th) ==
    /\ phase = "up"
    /\ threads[th].pc = "collate"
    /\ LET f == threads[th]
           X == SearchType[f.i]
           made == <<QueryCall(X, f.request.q, f.queried), CollateCall(X, model[X], f.request.n)>>
       IN
       \E fail \in {"none", "collate_results"} :
          IF fail = "collate_results"
          THEN Finish(th, f.request, made, Raised("collate_results"))
          ELSE Finish(th, f.request, made,
                      Returned(collate_results(X, f.hits, model[X], f.request.n)))
    /\ UNCHANGED <<phase, search_vars, conversation_vars, logfile, turns, starts>>

\* chat, lines 94-105: load the conversation history, then classify and answer
chat_answer(th) ==
    /\ phase = "up"
    /\ threads[th].pc = "idle"
    /\ \E q \in ChatQueries, metadata \in Metadatas, k \in 0..1, fail \in ChatFailures :
          LET a == Answer(q, metadata, k, fail, chat_session, model) IN
          IF a.ret.kind = "raise"
          THEN /\ turns.failed < MaxFailed
               /\ Finish(th, [op |-> "chat", q |-> q], a.calls, a.ret)
               /\ turns' = [turns EXCEPT !.failed = @ + 1]
          ELSE /\ ChatLen(meta_log) + Cardinality(InFlight) < MaxChat
               /\ threads' = [threads EXCEPT ![th] =
                                 [pc |-> "answered", q |-> q, metadata |-> metadata,
                                  chat_session |-> chat_session,
                                  gpt_response |-> a.ret.value, calls |-> a.calls]]
               /\ UNCHANGED <<req, calls, result, turns>>
    /\ UNCHANGED <<phase, search_vars, conversation_vars, logfile, starts>>

\* chat, line 108: chat_session is assigned from the history loaded at line 94
chat_prompt(th) ==
    /\ phase = "up"
    /\ threads[th].pc = "answered"
    /\ LET f == threads[th] IN
       /\ chat_session' = message_to_prompt(f.q, f.chat_session, f.gpt_response)
       /\ threads' = [threads EXCEPT ![th].pc = "prompted"]
    /\ UNCHANGED <<phase, search_vars, meta_log, logfile, req, calls, result, turns, starts>>

\* chat, lines 109-111: the record is appended to meta_log['chat'] and the answer returned
chat_log(th) ==
    /\ phase = "up"
    /\ threads[th].pc = "prompted"
    /\ LET f == threads[th] IN
       /\ meta_log' = Put(meta_log, "chat",
                          message_to_log(f.q, f.metadata, f.gpt_response,
                                         Get(meta_log, "chat", <<>>)))
       /\ Finish(th, [op |-> "chat", q |-> f.q], f.calls,
                 Returned([status |-> "ok", response |-> f.gpt_response]))
       /\ turns' = [turns EXCEPT !.ok = @ + 1]
    /\ UNCHANGED <<phase, search_vars, chat_session, logfile, starts>>

----------------------------------------------------------------------------
\* Shutdown

ShutdownFailures == {"none", "summarize", "open", "json.dump"}

\* a session record that always starts at 0, whatever the previous session's end
AppendSession_StartsAtZero(conversation_log, summary) ==
    LET session == [summary |-> summary,
                    session_start |-> 0,
                    session_end |-> Len(conversation_log["chat"])]
    IN
    IF Has(conversation_log, "session")
    THEN Put(conversation_log, "session", Append(conversation_log["session"], session))
    ELSE Put(conversation_log, "session", <<session>>)

\* a session record that replaces the session records there were
AppendSession_Replaces(conversation_log, summary) ==
    LET session == [summary |-> summary,
                    session_start |->
                        Last(Get(conversation_log, "session",
                                 <<[session_end |-> 0]>>)).session_end,
                    session_end |-> Len(conversation_log["chat"])]
    IN
    Put(conversation_log, "session", <<session>>)

\* a session record that ends one past the chat records there are
AppendSession_EndsPastLog(conversation_log, summary) ==
    LET session == [summary |-> summary,
                    session_start |->
                        Last(Get(conversation_log, "session",
                                 <<[session_end |-> 0]>>)).session_end,
                    session_end |-> Len(conversation_log["chat"]) + 1]
    IN
    IF Has(conversation_log, "session")
    THEN Put(conversation_log, "session", Append(conversation_log["session"], session))
    ELSE Put(conversation_log, "session", <<session>>)

\* lines 176-184: the log with this session's record appended
AppendSession(conversation_log, summary) ==
    LET session == [summary |-> summary,
                    session_start |->
                        Last(Get(conversation_log, "session",
                                 <<[session_end |-> 0]>>)).session_end,
                    session_end |-> Len(conversation_log["chat"])]
    IN
    IF Has(conversation_log, "session")
    THEN Put(conversation_log, "session", Append(conversation_log["session"], session))
    ELSE Put(conversation_log, "session", <<session>>)

\* a write that dumps the chat records only
WriteLog_ChatOnly(f, conversation_log, fail) ==
    IF fail = "open" THEN f
    ELSE IF fail = "json.dump" THEN Malformed
    ELSE File(json_dump([k \in {"chat"} |-> conversation_log[k]]))

\* lines 186-189: open the log file for writing and dump the log into it
WriteLog(f, conversation_log, fail) ==
    IF fail = "open" THEN f
    ELSE IF fail = "json.dump" THEN Malformed
    ELSE File(json_dump(conversation_log))

\* a shutdown that summarizes and saves without looking whether the log is empty
shutdown_event_NoEmptyCheck ==
    /\ phase = "up"
    /\ phase' = "down"
    /\ req' = [op |-> "shutdown"]
    /\ \E fail \in ShutdownFailures :
            /\ calls' = <<SummarizeCall(chat_session, "chat")>>
            /\ IF fail = "summarize"
               THEN /\ result' = Raised("summarize")
                    /\ UNCHANGED <<meta_log, logfile>>
               ELSE IF ~Has(meta_log, "chat") \/ Get(meta_log, "session", <<0>>) = <<>>
               THEN /\ result' = Raised("session")
                    /\ UNCHANGED <<meta_log, logfile>>
               ELSE /\ meta_log' = AppendSession(meta_log, "summary")
                    /\ logfile' = WriteLog(logfile, meta_log', fail)
                    /\ result' = IF fail = "none" THEN Returned(None) ELSE Raised(fail)
    /\ UNCHANGED <<search_vars, chat_session, turns, starts, threads>>

\* a shutdown that appends the session record first and has it summarized afterwards
shutdown_event_SessionBeforeSummary ==
    /\ phase = "up"
    /\ phase' = "down"
    /\ req' = [op |-> "shutdown"]
    /\ IF meta_log = EmptyDict
       THEN /\ calls' = <<>>
            /\ result' = Returned(None)
            /\ UNCHANGED <<meta_log, logfile>>
       ELSE \E fail \in ShutdownFailures :
            /\ calls' = <<SummarizeCall(chat_session, "chat")>>
            /\ IF ~Has(meta_log, "chat") \/ Get(meta_log, "session", <<0>>) = <<>>
               THEN /\ result' = Raised("session")
                    /\ UNCHANGED <<meta_log, logfile>>
               ELSE IF fail = "summarize"
               THEN /\ meta_log' = AppendSession(meta_log, "")
                    /\ result' = Raised("summarize")
                    /\ UNCHANGED logfile
               ELSE /\ meta_log' = AppendSession(meta_log, "summary")
                    /\ logfile' = WriteLog(logfile, meta_log', fail)
                    /\ result' = IF fail = "none" THEN Returned(None) ELSE Raised(fail)
    /\ UNCHANGED <<search_vars, chat_session, turns, starts, threads>>

\* on_event('shutdown')
shutdown_event ==
    /\ phase = "up"
    /\ phase' = "down"
    /\ req' = [op |-> "shutdown"]
    /\ IF meta_log = EmptyDict
       THEN /\ calls' = <<>>
            /\ result' = Returned(None)
            /\ UNCHANGED <<meta_log, logfile>>
       ELSE \E fail \in ShutdownFailures :
            /\ calls' = <<SummarizeCall(chat_session, "chat")>>
            /\ IF fail = "summarize"
               THEN /\ result' = Raised("summarize")
                    /\ UNCHANGED <<meta_log, logfile>>
               ELSE IF ~Has(meta_log, "chat") \/ Get(meta_log, "session", <<0>>) = <<>>
               THEN /\ result' = Raised("session")
                    /\ UNCHANGED <<meta_log, logfile>>
               ELSE /\ meta_log' = AppendSession(meta_log, "summary")
                    /\ logfile' = WriteLog(logfile, meta_log', fail)
                    /\ result' = IF fail = "none" THEN Returned(None) ELSE Raised(fail)
    /\ UNCHANGED <<search_vars, chat_session, turns, starts, threads>>

----------------------------------------------------------------------------
\* Specifications

Init ==
    /\ phase = "down"
    /\ model = [X \in Types |-> NoHandle]
    /\ search_config = [X \in Types |-> FALSE]
    /\ chat_session = <<>>
    /\ meta_log = EmptyDict
    /\ logfile = NoFile
    /\ req = [op |-> "none"]
    /\ calls = <<>>
    /\ result = Returned(None)
    /\ turns = [ok |-> 0, failed |-> 0, base |-> 0]
    /\ starts = 0
    /\ threads = [th \in Threads |-> Idle]

\* every combination of configured content types
AllConfigs == [Types -> BOOLEAN]

\* the configurations the chat turns tell apart: nothing configured, every type
\* but notes, every type
ChatConfigs ==
    { c \in AllConfigs : c[Music] = c[Ledger] /\ c[Ledger] = c[Image]
                            /\ (c[Notes] => c[Music]) }

Startup == main(ChatConfigs)
StartupSearch == main(AllConfigs)

\* the conversation lifecycle: startups, chat turns and shutdowns sharing one log file
Next == Startup \/ chat \/ shutdown_event
Spec == Init /\ [][Next]_vars

\* the chat turns of one process lifetime, with every answer of the classifier
NextTurns == Startup \/ chat_refined
SpecTurns == Init /\ [][NextTurns]_vars

\* one search request in flight while the handles are regenerated
search_thread == search_begin("t1") \/ search_if("t1") \/ search_query("t1") \/ search_collate("t1")
NextSearchConcurrent == Startup \/ regenerate \/ search_thread
SpecSearchConcurrent == Init /\ [][NextSearchConcurrent]_vars

\* chat turns in flight on several threads at once
chat_thread == \E th \in Threads : chat_answer(th) \/ chat_prompt(th) \/ chat_log(th)
NextChatConcurrent == Startup \/ chat_thread
SpecChatConcurrent == Init /\ [][NextChatConcurrent]_vars

\* the search endpoints within one process lifetime
NextSearch == StartupSearch \/ search \/ regenerate
SpecSearch == Init /\ [][NextSearch]_vars

----------------------------------------------------------------------------
\* Properties of search (checked under SpecSearch)

SearchedFor(qs) == req.op = "search" /\ req.q \in qs

\* the content types a search with filter t may use: matching the filter, handle present
Eligible(t) == {X \in Types : (t = X \/ t = None) /\ model[X] # NoHandle}

\* X comes before Y in the order Notes, Music, Ledger, Image
Before(X, Y) ==
    \E i, j \in DOMAIN SearchType : SearchType[i] = X /\ SearchType[j] = Y /\ i < j

FirstEligible(t, X) == X \in Eligible(t) /\ \A Y \in Eligible(t) : ~Before(Y, X)

NoBackendUsed == calls = <<>> /\ result = Returned(EmptyResult)

\* C1: a search with a non-empty query invokes at most one backend, the first in
\* the order Notes, Music, Ledger, Image whose type matches the filter and whose
\* handle is present, and returns the collated output of that backend alone.
C1_FirstMatchingBackendOnly ==
    SearchedFor({"coffee"}) =>
        /\ \A i \in DOMAIN calls :
              /\ FirstEligible(req.t, calls[i].type)
              /\ calls[i].handle = model[calls[i].type]
        /\ Cardinality({i \in DOMAIN calls : calls[i].fn = "query"}) <= 1
        /\ Cardinality({i \in DOMAIN calls : calls[i].fn = "collate_results"}) <= 1
        /\ Eligible(req.t) # {} => calls # <<>> /\ calls[1].fn = "query"
        /\ Eligible(req.t) = {} => NoBackendUsed
        /\ (result.kind = "return" /\ Eligible(req.t) # {}) =>
              /\ result.value.kind = "collated"
              /\ FirstEligible(req.t, result.value.type)
              /\ \A i \in DOMAIN result.value.entries :
                    result.value.entries[i].Entry.type = result.value.type

\* an unfiltered search with notes absent, music and ledger present, returns music hits
C1_Witness ==
    /\ SearchedFor({"coffee"}) /\ req.t = None
    /\ model[Notes] = NoHandle /\ model[Music] # NoHandle /\ model[Ledger] # NoHandle
    /\ result.kind = "return" /\ result.value.kind = "collated"
    /\ result.value.type = Music /\ Len(result.value.entries) >= 1

\* C2: a search with an empty or missing query returns an empty result and invokes
\* no backend query and no collation, whatever the count, filter and handles.
C2_EmptyQueryNoBackend ==
    SearchedFor({"", NoneQ}) => NoBackendUsed

\* an empty query, unfiltered, for 5 results, with every handle present
C2_Witness ==
    /\ SearchedFor({""}) /\ req.t = None /\ req.n = 5
    /\ \A X \in Types : model[X] # NoHandle
    /\ NoBackendUsed

\* C3: a search filtered to a type whose handle is absent returns an empty result
\* and invokes no backend, even when other handles are present; with no handle
\* at all every search returns an empty result.
C3_NoFallback ==
    (/\ SearchedFor(Queries)
     /\ \/ req.t \in Types /\ model[req.t] = NoHandle
        \/ \A X \in Types : model[X] = NoHandle)
        => NoBackendUsed

\* a search for notes with the notes handle absent and the other three present
C3_Witness ==
    /\ SearchedFor({"coffee"}) /\ req.t = Notes
    /\ model[Notes] = NoHandle
    /\ \A X \in Types \ {Notes} : model[X] # NoHandle
    /\ NoBackendUsed

\* no backend is configured and an unfiltered search for "coffee" returns nothing
C3_WitnessNoBackend ==
    /\ SearchedFor({"coffee"}) /\ req.t = None /\ req.n = 5
    /\ \A X \in Types : model[X] = NoHandle
    /\ NoBackendUsed

----------------------------------------------------------------------------
\* Properties of the conversation lifecycle (checked under Spec)

Sessions(d) == Get(d, "session", <<>>)

\* this step is a chat turn / the shutdown handler / the startup of a new process
ChatStep == phase = "up" /\ phase' = "up" /\ req'.op = "chat" /\ turns' # turns
ShutdownStep == phase = "up" /\ phase' = "down" /\ req'.op = "shutdown"
StartupStep == phase = "down" /\ starts' = starts + 1 /\ req'.op = "main"

\* C4: within a process lifetime the chat log has grown by exactly the number of
\* completed turns: from an empty log, its length is the number of completed
\* turns, and a failed turn adds no record.
C4_ChatLogCountsCompletedTurns ==
    ChatLen(meta_log) = turns.base + turns.ok

\* started from an empty log, three turns completed and one failed
C4_Witness ==
    /\ turns.base = 0 /\ turns.ok = 3 /\ turns.failed = 1
    /\ ChatLen(meta_log) = 3

\* C5: a chat turn in which the classifier, the notes search, the summarizer or the
\* completion fails leaves chat_session and meta_log as they were; a turn in which
\* none fails has appended to both when it returns.
C5_TurnAllOrNothing ==
    [][ChatStep =>
          /\ result'.kind = "raise" =>
                /\ result'.at \in ChatFailures \ {"none"}
                /\ UNCHANGED <<chat_session, meta_log>>
          /\ result'.kind = "return" =>
                /\ Len(chat_session') = Len(chat_session) + 1
                /\ SubSeq(chat_session', 1, Len(chat_session)) = chat_session
                /\ Last(chat_session').q = req'.q
                /\ Has(meta_log', "chat")
                /\ ChatLen(meta_log') = ChatLen(meta_log) + 1
                /\ SubSeq(meta_log'["chat"], 1, ChatLen(meta_log)) = Get(meta_log, "chat", <<>>)
                /\ Last(meta_log'["chat"]).message = req'.q
                /\ Sessions(meta_log') = Sessions(meta_log)]_vars

\* the summarizer failed in a turn that followed a completed one
C5_Witness ==
    /\ req.op = "chat" /\ result.kind = "raise" /\ result.at = "summarize"
    /\ turns.ok = 1 /\ Len(chat_session) = 1 /\ ChatLen(meta_log) = 1

\* the session records of a log: each starts where the one before it ended
\* and none ends before it starts
SessionRangesChained(d) ==
    \A i \in DOMAIN Sessions(d) :
        /\ Sessions(d)[i].session_start <= Sessions(d)[i].session_end
        /\ i > 1 => Sessions(d)[i].session_start = Sessions(d)[i - 1].session_end

\* C6: in the log in memory and in the log on disk, every session record starts
\* where the record before it ended and none ends before it starts.
C6_SessionRangesChained ==
    /\ SessionRangesChained(meta_log)
    /\ logfile.state = "file" => SessionRangesChained(json_load(logfile.doc))

\* two sessions with turns in each: records 0..1 and 1..3
C6_Witness ==
    /\ Len(Sessions(meta_log)) = 2
    /\ Sessions(meta_log)[1].session_end = 1
    /\ Sessions(meta_log)[2].session_start = 1
    /\ Sessions(meta_log)[2].session_end = 3

\* C7: the session records grow by one at each successful shutdown of a lifetime
\* with at least one completed turn, and not otherwise: not within a lifetime,
\* and not at the shutdown of a lifetime without a completed turn.
C7_SessionPerLifetimeWithTurns ==
    [][/\ ShutdownStep =>
            /\ Len(Sessions(meta_log')) - Len(Sessions(meta_log)) \in {0, 1}
            /\ (turns.ok >= 1 /\ result'.kind = "return") =>
                    Len(Sessions(meta_log')) = Len(Sessions(meta_log)) + 1
            /\ turns.ok = 0 => Sessions(meta_log') = Sessions(meta_log)
       /\ ChatStep => Sessions(meta_log') = Sessions(meta_log)]_vars

\* C8: a successful shutdown with a non-empty log appends one session record: it
\* ends at the length of the chat log and starts at the end of the last session
\* record, or at 0 when the log had no "session" key, which is then created.
C8_ShutdownSessionRecord ==
    [][(ShutdownStep /\ meta_log # EmptyDict /\ result'.kind = "return") =>
          /\ Has(meta_log', "session")
          /\ Len(meta_log'["session"]) = Len(Sessions(meta_log)) + 1
          /\ SubSeq(meta_log'["session"], 1, Len(Sessions(meta_log))) = Sessions(meta_log)
          /\ Last(meta_log'["session"]).session_end = ChatLen(meta_log)
          /\ Last(meta_log'["session"]).session_start =
                IF Has(meta_log, "session")
                THEN Last(meta_log["session"]).session_end
                ELSE 0
          /\ Get(meta_log', "chat", <<>>) = Get(meta_log, "chat", <<>>)]_vars

\* three chat records and no session before: the record is 0..3
C8_Witness ==
    /\ req.op = "shutdown" /\ result.kind = "return" /\ phase = "down"
    /\ ChatLen(meta_log) = 3
    /\ Len(Sessions(meta_log)) = 1
    /\ Sessions(meta_log)[1].session_start = 0
    /\ Sessions(meta_log)[1].session_end = 3

\* a shutdown with a session before it: the record starts at that session's end
C8_WitnessSecondSession ==
    /\ req.op = "shutdown" /\ result.kind = "return" /\ phase = "down"
    /\ Len(Sessions(meta_log)) = 2
    /\ Sessions(meta_log)[2].session_start = 2
    /\ Sessions(meta_log)[2].session_end = 3

\* C9: a shutdown with an empty log calls no summarizer, neither creates nor writes
\* the log file and leaves meta_log and chat_session as they were.
C9_EmptyShutdownNoOp ==
    [][(ShutdownStep /\ meta_log = EmptyDict) =>
          /\ calls' = <<>>
          /\ result'.kind = "return"
          /\ UNCHANGED <<meta_log, chat_session, logfile>>]_vars

\* a process whose only turn failed was shut down: no log, no file
C9_Witness ==
    /\ req.op = "shutdown" /\ phase = "down" /\ turns.failed = 1
    /\ meta_log = EmptyDict /\ logfile = NoFile /\ calls = <<>>

\* the log file holds exactly the log d, chat records and session records
FileHolds(d) ==
    /\ logfile.state = "file"
    /\ {logfile.doc[i].key : i \in DOMAIN logfile.doc} = DOMAIN d
    /\ \A i \in DOMAIN logfile.doc : logfile.doc[i].value = d[logfile.doc[i].key]
    /\ \A i, j \in DOMAIN logfile.doc : logfile.doc[i].key = logfile.doc[j].key => i = j

\* C10: after a successful shutdown the file holds the entire log in memory, the
\* session just appended included; a startup that finds the file loads a log
\* equal to it, so that the log of the process shut down comes back; a startup
\* that finds no file starts with an empty log and an empty chat_session.
C10_PersistenceRoundTrip ==
    /\ [](/\ (req.op = "shutdown" /\ result.kind = "return" /\ meta_log # EmptyDict)
               => FileHolds(meta_log)
          /\ (req.op = "main" /\ result.kind = "return" /\ logfile.state = "file")
               => FileHolds(meta_log)
          /\ (req.op = "main" /\ logfile.state = "absent")
               => meta_log = EmptyDict /\ chat_session = <<>>)
    /\ [][(StartupStep /\ req.op = "shutdown" /\ result.kind = "return"
              /\ meta_log # EmptyDict) =>
                /\ result'.kind = "return"
                /\ meta_log' = meta_log]_vars

\* a process has loaded the three chat records and the session record of the one before
C10_Witness ==
    /\ req.op = "main" /\ result.kind = "return" /\ phase = "up"
    /\ logfile.state = "file"
    /\ ChatLen(meta_log) = 3 /\ Len(Sessions(meta_log)) = 1
    /\ Sessions(meta_log)[1].session_end = 3

----------------------------------------------------------------------------
\* Properties of regenerate (checked under SpecSearch)

RegenerateStep == phase = "up" /\ req'.op = "regenerate"

\* the content types a regenerate with filter t rebuilds: matching the filter, configured
Rebuilt(t) == {X \in Types : (t = X \/ t = None) /\ search_config[X]}

\* C11: regenerate(t) changes only the handles of the types that match t and are
\* configured: the handle of an unconfigured type stays unset, the handles of the
\* types that do not match or are unconfigured stay as they were, and so does
\* the SearchConfig.
C11_RegenerateFrame ==
    [][RegenerateStep =>
          /\ \A X \in Types \ Rebuilt(req'.t) : model'[X] = model[X]
          /\ \A X \in Types : ~search_config[X] => model'[X] = NoHandle
          /\ search_config' = search_config]_vars

\* music was regenerated: its handle is new, the notes handle is the one of the
\* startup and the unconfigured image type has none
C11_Witness ==
    /\ req.op = "regenerate" /\ req.t = Music /\ result.kind = "return"
    /\ model[Music] = setup(setup(NoHandle))
    /\ model[Notes] = setup(NoHandle)
    /\ ~search_config[Image] /\ model[Image] = NoHandle

\* the unconfigured notes type was regenerated, with the other types configured
C11_WitnessUnconfigured ==
    /\ req.op = "regenerate" /\ req.t = Notes /\ result.kind = "return"
    /\ ~search_config[Notes] /\ model[Notes] = NoHandle /\ calls = <<>>
    /\ \A X \in Types \ {Notes} : model[X] = setup(NoHandle)

\* C14: a regenerate in which the setup of a type fails leaves every handle as it
\* was before the call, the handles of the types already set up in the call
\* included.
C14_RegenerateCommitsNothingOnFailure ==
    [][(RegenerateStep /\ result'.kind = "raise") => model' = model]_vars

----------------------------------------------------------------------------
\* Properties of startup and shutdown failures (checked under Spec)

\* C15: a startup that finds a log file it cannot parse fails: while the file is
\* malformed no process serves, so no chat turn and no shutdown runs on a log put
\* in its place, and the file is not written.
C15_MalformedLogStopsStartup ==
    /\ [](logfile.state = "malformed" => phase = "down")
    /\ [][logfile.state = "malformed" =>
             /\ logfile' = logfile
             /\ ~ChatStep /\ ~ShutdownStep
             /\ StartupStep => result' = Raised("json.load") /\ phase' = "down"]_vars

\* a process found the file a failed write had left and did not start
C15_Witness ==
    /\ req.op = "main" /\ result = Raised("json.load")
    /\ logfile.state = "malformed" /\ phase = "down" /\ starts = 2

\* C18: a shutdown whose summarizer fails raises, after that one call, and commits
\* nothing: no session record, no file created or written.
C18_SummarizerFailureCommitsNothing ==
    [][(ShutdownStep /\ calls' # <<>> /\ result' = Raised("summarize")) =>
          /\ calls' = <<SummarizeCall(chat_session, "chat")>>
          /\ UNCHANGED <<meta_log, chat_session, logfile>>]_vars

\* the summarizer failed in the shutdown after two turns: no session, no file
C18_Witness ==
    /\ req.op = "shutdown" /\ result = Raised("summarize") /\ phase = "down"
    /\ ChatLen(meta_log) = 2 /\ ~Has(meta_log, "session")
    /\ logfile = NoFile

\* C19: a shutdown that finds a log file leaves it holding either what it held or
\* the whole new log, also when the write fails part-way.
C19_WriteNeverDestroysLog ==
    [][(ShutdownStep /\ logfile.state = "file") =>
          \/ logfile' = logfile
          \/ logfile' = File(json_dump(meta_log'))]_vars

\* C20: a log that is not empty has a "chat" key, and its last session record ends
\* at or before the end of the chat records; so no shutdown fails on the session
\* record and no record ends before it starts.
C20_LogWellFormed ==
    /\ meta_log # EmptyDict =>
          /\ Has(meta_log, "chat")
          /\ Sessions(meta_log) # <<>> =>
                Last(Sessions(meta_log)).session_end <= ChatLen(meta_log)
    /\ result # Raised("session")
    /\ \A i \in DOMAIN Sessions(meta_log) :
          Sessions(meta_log)[i].session_start <= Sessions(meta_log)[i].session_end

\* a loaded log whose session ended at 2 has grown to three chat records
C20_Witness ==
    /\ phase = "up" /\ ChatLen(meta_log) = 3
    /\ Len(Sessions(meta_log)) = 1
    /\ Last(Sessions(meta_log)).session_end = 2

----------------------------------------------------------------------------
\* Properties of one chat turn (checked under SpecTurns)

CallsOf(cs, fn) == {i \in DOMAIN cs : cs[i].fn = fn}

\* the metadata of the turn that has just been logged
LoggedMetadata(d) == Last(d["chat"]).metadata

\* the notes search of a turn with this metadata finds nothing to query
SoftEmpty(metadata) ==
    metadata.memory_type = "notes"
        /\ (model[Notes] = NoHandle \/ metadata.query \in {"", NoneQ})

\* C16: a chat turn calls the classifier once and first; then it takes one path:
\* for a notes intent one search of the notes for one result and then one
\* summarize over the entries returned, otherwise one conversational completion
\* with the current chat_session, never both; chat_session and meta_log are
\* updated only when the answer is there.
C16_TurnOrder ==
    [][ChatStep =>
          /\ calls' # <<>> /\ calls'[1] = UnderstandCall(req'.q)
          /\ CallsOf(calls', "understand") = {1}
          /\ CallsOf(calls', "summarize") = {} \/ CallsOf(calls', "converse") = {}
          /\ \A i \in CallsOf(calls', "converse") :
                /\ i = 2 /\ Len(calls') = 2
                /\ calls'[i] = ConverseCall(req'.q, chat_session)
          /\ \A i \in CallsOf(calls', "query") :
                i = 2 /\ calls'[i].type = Notes /\ calls'[i].handle = model[Notes]
          /\ \A i \in CallsOf(calls', "collate_results") :
                /\ i = 3 /\ calls'[2].fn = "query"
                /\ calls'[i].type = Notes /\ calls'[i].n = 1
          /\ \A i \in CallsOf(calls', "summarize") :
                /\ i = Len(calls') /\ i \in {2, 4}
                /\ calls'[i].summary_type = "notes"
                /\ Len(calls'[i].text) <= 1
                /\ i = 2 => calls'[i].text = <<>>
                /\ i = 4 => calls'[3].fn = "collate_results"
                /\ \A j \in DOMAIN calls'[i].text :
                      calls'[i].text[j] = [type |-> Notes, handle |-> model[Notes], rank |-> j]
          /\ result'.kind = "return" =>
                /\ Last(calls').fn =
                      IF LoggedMetadata(meta_log').memory_type = "notes"
                      THEN "summarize" ELSE "converse"
                /\ chat_session' # chat_session /\ meta_log' # meta_log
          /\ result'.kind = "raise" =>
                /\ UNCHANGED <<chat_session, meta_log>>
                /\ Last(calls').fn = result'.at]_vars

\* a notes turn: classifier, notes query, collation for one result, summary of the entry
C16_Witness ==
    /\ req.op = "chat" /\ result.kind = "return"
    /\ Len(calls) = 4 /\ calls[2].fn = "query" /\ calls[3].fn = "collate_results"
    /\ calls[4].fn = "summarize" /\ Len(calls[4].text) = 1
    /\ LoggedMetadata(meta_log).query = "coffee"

\* a conversational turn after a completed one: the transcript is the context
C16_WitnessConverse ==
    /\ req.op = "chat" /\ result.kind = "return"
    /\ Len(calls) = 2 /\ calls[2].fn = "converse" /\ Len(calls[2].chat_session) = 1

\* C17: a notes turn whose search is soft-empty (no notes handle, or an empty or
\* missing refined query) invokes no backend, summarizes an empty text and is
\* logged like any other turn; no turn queries a backend other than the notes or
\* with an empty query, and no turn fails but at a collaborator it called.
C17_SoftEmptyTurnCompletes ==
    [][ChatStep =>
          /\ \A i \in CallsOf(calls', "query") \cup CallsOf(calls', "collate_results") :
                calls'[i].type = Notes /\ model[Notes] # NoHandle
          /\ \A i \in CallsOf(calls', "query") : calls'[i].q \notin {"", NoneQ}
          /\ (result'.kind = "raise" /\ model[Notes] = NoHandle) =>
                result'.at \in {"understand", "summarize", "converse"}
          /\ (result'.kind = "return" /\ SoftEmpty(LoggedMetadata(meta_log'))) =>
                /\ calls' = <<UnderstandCall(req'.q), SummarizeCall(<<>>, "notes")>>
                /\ ChatLen(meta_log') = ChatLen(meta_log) + 1
                /\ Last(meta_log'["chat"]).message = req'.q
                /\ Last(meta_log'["chat"]).response = result'.value.response
                /\ chat_session' =
                      Append(chat_session,
                             [q |-> req'.q, response |-> result'.value.response])]_vars

\* a notes turn with no notes handle and the other handles present completed
C17_Witness ==
    /\ req.op = "chat" /\ result.kind = "return"
    /\ model[Notes] = NoHandle /\ model[Music] # NoHandle
    /\ LoggedMetadata(meta_log) = [memory_type |-> "notes", query |-> "coffee"]
    /\ calls = <<UnderstandCall(req.q), SummarizeCall(<<>>, "notes")>>
    /\ turns.ok = 1 /\ Len(chat_session) = 1

\* a notes turn with an empty refined query and the notes handle present completed
C17_WitnessEmptyQuery ==
    /\ req.op = "chat" /\ result.kind = "return"
    /\ model[Notes] # NoHandle
    /\ LoggedMetadata(meta_log) = [memory_type |-> "notes", query |-> ""]
    /\ calls = <<UnderstandCall(req.q), SummarizeCall(<<>>, "notes")>>

----------------------------------------------------------------------------
\* Properties of requests served concurrently

\* C12: a search request with a regenerate of its content type in between sees one
\* handle for the whole request: the handle whose presence it checked is the one
\* it queries, and the one whose entries it collates.
C12_SearchSeesOneHandle ==
    [][\A th \in Threads :
          /\ (threads[th].pc = "query" /\ threads'[th].pc # "query") =>
                threads[th].checked = model[SearchType[threads[th].i]]
          /\ (threads[th].pc = "collate" /\ threads'[th].pc # "collate") =>
                /\ threads[th].queried = threads[th].checked
                /\ model[SearchType[threads[th].i]] = threads[th].queried]_vars

\* C13: with chat turns in flight on several threads, once all of them have
\* completed chat_session holds one entry for every record of meta_log["chat"].
C13_ConcurrentTurnsAllAppended ==
    InFlight = {} => Len(chat_session) = ChatLen(meta_log)

====
